---- MODULE Spec2Model ----
(***************************************************************************)
(* A model of the two services of docker-network-virtualization:           *)
(*   - the User Service  (src/unnamed/part_000): getAllUsers, createUser,  *)
(*     deleteUser, checkUserExists (GET /users/exists/:id);                *)
(*   - the Post Service  (src/post/main.go): getPostsByUserID, createPost, *)
(*     deletePost and its verification client checkUserExists.             *)
(* Identifier strings are sequences of one-character strings, ObjectIDs    *)
(* are sequences of 12 bytes.  The document store is a set of documents    *)
(* with atomic single-document operations; a write whose result does not   *)
(* reach the handler before its deadline may still have been applied.      *)
(***************************************************************************)
EXTENDS Integers, Sequences, FiniteSets, TLC

\* ------------------------------------------------------------------ bounds
\* at most this many create-user requests reach primitive.NewObjectID
MaxUsers == 2
\* at most this many posts are inserted with a driver-generated identifier
MaxPosts == 2
\* number of Post Service requests (create-post, list-by-user) in flight at once
MaxSlots == 1

\* ------------------------------------------------- identifiers (primitive)
\* length of the hex form of an ObjectID, and of the ObjectID in bytes
HexLen == 24
OidLen == 12

HexLower == <<"0","1","2","3","4","5","6","7","8","9","a","b","c","d","e","f">>
HexUpper == <<"0","1","2","3","4","5","6","7","8","9","A","B","C","D","E","F">>

\* encoding/hex's digit table: both cases are accepted
HexValue ==
    [c \in {HexLower[i] : i \in 1..16} \cup {HexUpper[i] : i \in 1..16} |->
        (CHOOSE i \in 1..16 : HexLower[i] = c \/ HexUpper[i] = c) - 1]

IsHexChar(c) == c \in DOMAIN HexValue

\* value of one hex digit
HexVal(c) == HexValue[c]

\* primitive.ObjectID.Hex(): lower-case hex of the 12 bytes
Hex(oid) ==
    [i \in 1..(2 * Len(oid)) |->
        IF i % 2 = 1 THEN HexLower[(oid[(i + 1) \div 2] \div 16) + 1]
                     ELSE HexLower[(oid[i \div 2] % 16) + 1]]

\* the same identifier written with upper-case hex digits
HexUp(oid) ==
    [i \in 1..(2 * Len(oid)) |->
        IF i % 2 = 1 THEN HexUpper[(oid[(i + 1) \div 2] \div 16) + 1]
                     ELSE HexUpper[(oid[i \div 2] % 16) + 1]]

\* primitive.ObjectIDFromHex: the string must be 24 characters, all hex digits
ObjectIDFromHex(s) ==
    IF Len(s) # HexLen
      THEN [err |-> TRUE, oid |-> <<>>]
      ELSE IF \E i \in 1..Len(s) : ~IsHexChar(s[i])
        THEN [err |-> TRUE, oid |-> <<>>]
        ELSE [err |-> FALSE,
              oid |-> [i \in 1..OidLen |->
                          16 * HexVal(s[2 * i - 1]) + HexVal(s[2 * i])]]

\* primitive.NilObjectID: the zero value of Post.ID / User.ID
NilObjectID == [i \in 1..OidLen |-> 0]

\* the process-unique bytes of the two services' ObjectID generators
UserProc == 1
PostProc == 2

\* primitive.NewObjectID(): timestamp (4 bytes), process-unique (5), counter (3);
\* the counter is what makes two identifiers of one process differ
NewObjectID(proc, counter) ==
    [i \in 1..OidLen |->
        IF i = 9 THEN proc
        ELSE IF i = 12 THEN counter % 256
        ELSE IF i = 11 THEN (counter \div 256) % 256
        ELSE 0]

\* the value the ObjectID counter of a process starts from
FirstCounter == 10

\* ------------------------------------------------------- HTTP and JSON bodies
\* gin.H{...} / a struct rendered by c.JSON
JsonBody(obj) == [ctype |-> "json", obj |-> obj]
\* the router's answer for a path no route matches (plain text, not JSON)
NoRouteBody == [ctype |-> "text", obj |-> [text |-> "404 page not found"]]
\* gin.H{"error": err.Error()}
ErrorBody(msg) == JsonBody([error |-> msg])

\* position of the first occurrence of c in s, 0 when there is none
IndexOf(s, c) ==
    IF \E i \in 1..Len(s) : s[i] = c
      THEN CHOOSE i \in 1..Len(s) : s[i] = c /\ \A j \in 1..(i - 1) : s[j] # c
      ELSE 0

\* fmt.Sprintf("%s/users/exists/%s", base, userID) parsed by http.Get: the part
\* of userID before the first "?" is the rest of the path, what follows is the
\* query string
UrlPathRest(userID) ==
    IF IndexOf(userID, "?") = 0 THEN userID
    ELSE SubSeq(userID, 1, IndexOf(userID, "?") - 1)

\* the router's match of a path segment against a ":param" route: the parameter
\* is one non-empty segment; a segment followed by one trailing slash is
\* redirected to the path without it, which the client follows
GinParam(rest) ==
    IF rest = <<>> THEN [match |-> FALSE, param |-> <<>>]
    ELSE IF IndexOf(rest, "/") = 0 THEN [match |-> TRUE, param |-> rest]
    ELSE IF IndexOf(rest, "/") = Len(rest) /\ Len(rest) > 1
      THEN [match |-> TRUE, param |-> SubSeq(rest, 1, Len(rest) - 1)]
      ELSE [match |-> FALSE, param |-> <<>>]

\* ----------------------------------------------------------- document store
\* outcomes of one store read: it succeeds, or it returns an error
\* (connectivity, deadline)
StoreOutcomes == {"ok", "err"}

\* outcomes of one store write under the handler's 5-second context: it
\* succeeds; it returns an error and the store did not apply it; or the store
\* applies it and the deadline fires before the result reaches the handler
\* ("late": the handler sees an error, the call is abandoned, nothing is
\* cancelled or undone in the store)
WriteOutcomes == StoreOutcomes \cup {"late"}

\* (mutant) the insert replaces a document that has the same _id
InsertOne_Replace(coll, doc, store) ==
    IF store = "err"
      THEN [err |-> TRUE, coll |-> coll]
      ELSE [err |-> store = "late",
            coll |-> {d \in coll : d.id # doc.id} \cup {doc}]

\* Collection.InsertOne: _id is unique in a collection
InsertOne(coll, doc, store) ==
    IF store = "err" \/ \E d \in coll : d.id = doc.id
      THEN [err |-> TRUE, coll |-> coll]
      ELSE [err |-> store = "late", coll |-> coll \cup {doc}]

\* Collection.DeleteOne(bson.M{"_id": oid})
DeleteOne(coll, oid, store) ==
    IF store = "err"
      THEN [err |-> TRUE, coll |-> coll, DeletedCount |-> 0]
      ELSE IF store = "late"
        THEN [err |-> TRUE, coll |-> {d \in coll : d.id # oid}, DeletedCount |-> 0]
        ELSE [err |-> FALSE, coll |-> {d \in coll : d.id # oid},
              DeletedCount |-> Cardinality({d \in coll : d.id = oid})]

\* (mutant) the filter is dropped: every document is counted
CountDocuments_NoFilter(coll, oid, store) ==
    IF store # "ok"
      THEN [err |-> TRUE, count |-> 0]
      ELSE [err |-> FALSE, count |-> Cardinality(coll)]

\* Collection.CountDocuments(bson.M{"_id": oid})
CountDocuments(coll, oid, store) ==
    IF store # "ok"
      THEN [err |-> TRUE, count |-> 0]
      ELSE [err |-> FALSE, count |-> Cardinality({d \in coll : d.id = oid})]

\* (mutant) the filter is dropped: every Post is found
FindByUserID_NoFilter(coll, userID, store) ==
    IF store # "ok"
      THEN [err |-> TRUE, docs |-> {}]
      ELSE [err |-> FALSE, docs |-> coll]

\* Collection.Find(bson.M{"user_id": userID}) and cursor.All; the filter is
\* string equality on the stored field
FindByUserID(coll, userID, store) ==
    IF store # "ok"
      THEN [err |-> TRUE, docs |-> {}]
      ELSE [err |-> FALSE, docs |-> {d \in coll : d.user_id = userID}]

\* ------------------------------------------------------------- User Service
\* getAllUsers: GET /users
getAllUsers(us, store) ==
    IF store # "ok"
      THEN [status |-> 500, body |-> ErrorBody("store"), users |-> us, storeOps |-> 1]
      ELSE [status |-> 200, body |-> JsonBody([users |-> us]), users |-> us, storeOps |-> 1]

\* (mutant) the result of InsertOne is not looked at: 201 whatever the store did
createUser_IgnoreInsertErr(bodyOk, name, us, counter, store) ==
    IF ~bodyOk
      THEN [status |-> 400, body |-> ErrorBody("bind"), users |-> us,
            counter |-> counter, storeOps |-> 0]
      ELSE LET newUser == [id |-> NewObjectID(UserProc, counter), name |-> name]
               r == InsertOne(us, newUser, store)
           IN  [status |-> 201,
                body |-> JsonBody([id |-> Hex(newUser.id), name |-> name]),
                users |-> r.coll, counter |-> counter + 1, storeOps |-> 1]

\* createUser: POST /users.  bodyOk: the body binds to a User.  The identifier
\* is always the service's own, whatever the body carried.
createUser(bodyOk, name, us, counter, store) ==
    IF ~bodyOk
      THEN [status |-> 400, body |-> ErrorBody("bind"), users |-> us,
            counter |-> counter, storeOps |-> 0]
      ELSE LET newUser == [id |-> NewObjectID(UserProc, counter), name |-> name]
               r == InsertOne(us, newUser, store)
           IN  IF r.err
                 THEN [status |-> 500, body |-> ErrorBody("store"), users |-> r.coll,
                       counter |-> counter + 1, storeOps |-> 1]
                 ELSE [status |-> 201,
                       body |-> JsonBody([id |-> Hex(newUser.id), name |-> name]),
                       users |-> r.coll, counter |-> counter + 1, storeOps |-> 1]

\* (mutant) the parse error is not returned: the delete runs with the zero
\* identifier
deleteUser_NoParseCheck(idParam, us, store) ==
    LET p == ObjectIDFromHex(idParam)
        res == DeleteOne(us, IF p.err THEN NilObjectID ELSE p.oid, store)
    IN  IF res.err
          THEN [status |-> 500, body |-> ErrorBody("store"), users |-> res.coll,
                storeOps |-> 1]
          ELSE IF res.DeletedCount = 0
            THEN [status |-> 404, body |-> ErrorBody("user not found"),
                  users |-> res.coll, storeOps |-> 1]
            ELSE [status |-> 200,
                  body |-> JsonBody([message |-> "deleted successfully"]),
                  users |-> res.coll, storeOps |-> 1]

\* deleteUser: DELETE /users/:id
deleteUser(idParam, us, store) ==
    LET p == ObjectIDFromHex(idParam) IN
    IF p.err
      THEN [status |-> 400, body |-> ErrorBody("hex"), users |-> us, storeOps |-> 0]
      ELSE LET res == DeleteOne(us, p.oid, store) IN
           IF res.err
             THEN [status |-> 500, body |-> ErrorBody("store"), users |-> res.coll,
                   storeOps |-> 1]
             ELSE IF res.DeletedCount = 0
               THEN [status |-> 404, body |-> ErrorBody("user not found"),
                     users |-> res.coll, storeOps |-> 1]
               ELSE [status |-> 200,
                     body |-> JsonBody([message |-> "deleted successfully"]),
                     users |-> res.coll, storeOps |-> 1]

\* (mutant) exists is count >= 0 instead of count > 0
userCheckUserExists_CountGeq0(idParam, us, store) ==
    LET p == ObjectIDFromHex(idParam) IN
    IF p.err
      THEN [status |-> 400, body |-> ErrorBody("hex"), count |-> -1, storeOps |-> 0]
      ELSE LET c == CountDocuments(us, p.oid, store) IN
           IF c.err
             THEN [status |-> 500, body |-> ErrorBody("store"), count |-> -1,
                   storeOps |-> 1]
             ELSE [status |-> 200,
                   body |-> JsonBody([id |-> idParam, exists |-> c.count >= 0]),
                   count |-> c.count, storeOps |-> 1]

\* checkUserExists of the User Service: GET /users/exists/:id.
\* count is the handler's local count (-1: the store was not counted).
userCheckUserExists(idParam, us, store) ==
    LET p == ObjectIDFromHex(idParam) IN
    IF p.err
      THEN [status |-> 400, body |-> ErrorBody("hex"), count |-> -1, storeOps |-> 0]
      ELSE LET c == CountDocuments(us, p.oid, store) IN
           IF c.err
             THEN [status |-> 500, body |-> ErrorBody("store"), count |-> -1,
                   storeOps |-> 1]
             ELSE [status |-> 200,
                   body |-> JsonBody([id |-> idParam, exists |-> c.count > 0]),
                   count |-> c.count, storeOps |-> 1]

\* the User Service's answer to GET <base>/users/exists/<userID> as the Post
\* Service's client builds it
ExistsEndpoint(userID, us, store) ==
    LET r == GinParam(UrlPathRest(userID)) IN
    IF ~r.match
      THEN [status |-> 404, body |-> NoRouteBody, count |-> -1, storeOps |-> 0]
      ELSE userCheckUserExists(r.param, us, store)

\* ------------------------------------------------------------- Post Service
\* outcomes of the transport of one http.Get: the answer arrives, the call
\* fails (connection refused, DNS, reset), or the call is accepted and never
\* answered
NetOutcomes == {"ok", "fail", "hang"}

\* json.NewDecoder(resp.Body).Decode(&result) into struct{ID string; Exists bool}:
\* a JSON object decodes whatever its keys are (an absent key leaves the zero
\* value), a body that is no JSON object is an error
DecodeExists(body) ==
    IF body.ctype # "json"
      THEN [err |-> TRUE, Exists |-> FALSE]
      ELSE [err |-> FALSE,
            Exists |-> IF "exists" \in DOMAIN body.obj THEN body.obj.exists ELSE FALSE]

\* checkUserExists of the Post Service (the verification client), for a call
\* that returns: (exists, err).  The response's status code is not read.
checkUserExists(userID, net, us, store) ==
    IF net # "ok"
      THEN [exists |-> FALSE, err |-> TRUE]
      ELSE LET result == DecodeExists(ExistsEndpoint(userID, us, store).body) IN
           IF result.err
             THEN [exists |-> FALSE, err |-> TRUE]
             ELSE [exists |-> result.Exists, err |-> FALSE]

\* (mutant) the verification error is not told apart from exists:false
createPostGate_ErrAsNotFound(v) ==
    IF ~v.exists THEN 404
    ELSE 0

\* (mutant) exists:false does not stop the insert
createPostGate_NoNotFound(v) ==
    IF v.err THEN 502
    ELSE 0

\* createPost after binding, up to the store: the status it answers without
\* touching the store, or 0 when it goes on to InsertOne
createPostGate(v) ==
    IF v.err THEN 502
    ELSE IF ~v.exists THEN 404
    ELSE 0

\* getPostsByUserID up to the store: as createPost
getPostsGate(v) ==
    IF v.err THEN 502
    ELSE IF ~v.exists THEN 404
    ELSE 0

\* createPost's InsertOne and answer.  A zero newPost.ID is omitted from the
\* document (omitempty) and the driver generates the _id.
createPostStore(newPost, ps, counter, store) ==
    LET doc == IF newPost.id = NilObjectID
                 THEN [newPost EXCEPT !.id = NewObjectID(PostProc, counter)]
                 ELSE newPost
        next == IF newPost.id = NilObjectID THEN counter + 1 ELSE counter
        result == InsertOne(ps, doc, store)
    IN  IF result.err
          THEN [status |-> 500, out |-> {}, posts |-> result.coll, counter |-> next]
          ELSE [status |-> 201, out |-> {doc}, posts |-> result.coll, counter |-> next]

\* getPostsByUserID's Find, cursor.All and answer ("decode": cursor.All fails);
\* user_id is the response's "user_id" key, out its "posts" key
getPostsStore(userID, ps, store) ==
    LET cursor == FindByUserID(ps, userID, IF store = "decode" THEN "ok" ELSE store) IN
    IF cursor.err THEN [status |-> 500, user_id |-> <<>>, out |-> {}]
    ELSE IF store = "decode" THEN [status |-> 500, user_id |-> <<>>, out |-> {}]
    ELSE [status |-> 200, user_id |-> userID, out |-> cursor.docs]

\* (mutant) DeletedCount is not looked at: a delete that removed nothing is
\* answered as a success
deletePost_NoCountCheck(postID, ps, store) ==
    LET p == ObjectIDFromHex(postID) IN
    IF p.err
      THEN [status |-> 400, body |-> ErrorBody("hex"), posts |-> ps, storeOps |-> 0]
      ELSE LET res == DeleteOne(ps, p.oid, store) IN
           IF res.err
             THEN [status |-> 500, body |-> ErrorBody("store"), posts |-> res.coll,
                   storeOps |-> 1]
             ELSE [status |-> 200, body |-> JsonBody([message |-> "post deleted"]),
                   posts |-> res.coll, storeOps |-> 1]

\* deletePost: DELETE /posts/:postID
deletePost(postID, ps, store) ==
    LET p == ObjectIDFromHex(postID) IN
    IF p.err
      THEN [status |-> 400, body |-> ErrorBody("hex"), posts |-> ps, storeOps |-> 0]
      ELSE LET res == DeleteOne(ps, p.oid, store) IN
           IF res.err
             THEN [status |-> 500, body |-> ErrorBody("store"), posts |-> res.coll,
                   storeOps |-> 1]
             ELSE IF res.DeletedCount = 0
               THEN [status |-> 404, body |-> ErrorBody("post not found"),
                     posts |-> res.coll, storeOps |-> 1]
               ELSE [status |-> 200, body |-> JsonBody([message |-> "post deleted"]),
                     posts |-> res.coll, storeOps |-> 1]

\* ------------------------------------------------------------------ inputs
\* identifiers the User Service can assign within the bounds
UserOids == {NewObjectID(UserProc, c) : c \in FirstCounter..(FirstCounter + MaxUsers - 1)}
\* identifiers the Post Service's driver can generate within the bounds
PostOids == {NewObjectID(PostProc, c) : c \in FirstCounter..(FirstCounter + MaxPosts - 1)}

FirstUser == NewObjectID(UserProc, FirstCounter)
FirstPost == NewObjectID(PostProc, FirstCounter)

\* a 24-character string with a character that is no hex digit
NonHexId == [Hex(FirstUser) EXCEPT ![HexLen] = "g"]
\* a string of the wrong length
ShortId == <<"a", "b">>
\* the identifier of a user followed by a query string
QueryId == Hex(FirstUser) \o <<"?", "x">>
\* two segments
SlashId == <<"a", "/", "b">>

\* path parameters a client sends to /users/:id and /users/exists/:id
UserPathIds ==
    {Hex(u) : u \in UserOids} \cup
    {HexUp(FirstUser), Hex(NilObjectID), NonHexId, ShortId}

\* path parameters a client sends to DELETE /posts/:postID
PostPathIds ==
    {Hex(p) : p \in PostOids} \cup {HexUp(FirstPost), NonHexId, ShortId}

\* path parameters a client sends to GET /posts/:userID (one non-empty segment)
ListUserIds == UserPathIds \cup {QueryId}

\* user_id values of a create-post body (any string, the empty one when absent)
BodyUserIds == ListUserIds \cup {<<>>, SlashId}

Names == {"Alice"}
Titles == {"T1"}
Contents == {"C"}
\* create-post bodies that bind to a Post: without an "id" for every user_id,
\* and one that carries an "id" the driver may generate itself
Bodies ==
    {[id |-> NilObjectID, user_id |-> u, title |-> t, content |-> c] :
        u \in BodyUserIds, t \in Titles, c \in Contents} \cup
    {[id |-> FirstPost, user_id |-> Hex(FirstUser), title |-> t, content |-> c] :
        t \in Titles, c \in Contents}

\* ------------------------------------------------------------------- state
VARIABLES
    users,        \* the "users" collection: documents [id, name]
    posts,        \* the "posts" collection: documents [id, user_id, title, content]
    userCounter,  \* the User Service's ObjectID counter
    postCounter,  \* the Post Service driver's ObjectID counter
    reqs          \* the create-post / list-by-user requests in flight, by slot

vars == <<users, posts, userCounter, postCounter, reqs>>

Slots == 1..MaxSlots

\* whether the users collection holds a user whose identifier is the string
UserPresent(userID, us) ==
    /\ ~ObjectIDFromHex(userID).err
    /\ \E u \in us : u.id = ObjectIDFromHex(userID).oid

\* whether the users collection holds the user the existence check of userID
\* asks the User Service about (the path segment it receives)
CheckedPresent(userID, us) ==
    /\ GinParam(UrlPathRest(userID)).match
    /\ UserPresent(GinParam(UrlPathRest(userID)).param, us)

IdleReq ==
    [kind |-> "none", pc |-> "idle", userID |-> <<>>, bodyId |-> NilObjectID,
     title |-> "", content |-> "", net |-> "none", ustatus |-> 0, count |-> -1,
     exists |-> FALSE, err |-> FALSE, userAtCheck |-> FALSE, refAtCheck |-> FALSE,
     refAtStore |-> FALSE, bodyOk |-> TRUE, echo |-> <<>>,
     status |-> 0, out |-> {}, verifyCalls |-> 0, storeOps |-> 0]

\* both services started on empty collections, no request in flight
Init ==
    /\ users = {}
    /\ posts = {}
    /\ userCounter = FirstCounter
    /\ postCounter = FirstCounter
    /\ reqs = [s \in Slots |-> IdleReq]

\* create-post requests in flight that will ask the driver for an identifier
PendingGenerated ==
    Cardinality({s \in Slots : /\ reqs[s].kind = "create"
                               /\ reqs[s].pc \in {"verifying", "verified"}
                               /\ reqs[s].bodyId = NilObjectID})

\* ----------------------------------------------------- User Service actions
\* Each handler of the User Service, and deletePost below, is one step: the
\* collection becomes what the handler's operator returns; its status and
\* body go to the client and are not kept in the state.
GetAllUsers ==
    \E store \in StoreOutcomes :
        LET r == getAllUsers(users, store) IN
        /\ users' = r.users
        /\ UNCHANGED <<posts, userCounter, postCounter, reqs>>

CreateUser ==
    \E bodyOk \in BOOLEAN, name \in Names, store \in WriteOutcomes :
        LET r == createUser(bodyOk, name, users, userCounter, store) IN
        /\ bodyOk => userCounter < FirstCounter + MaxUsers
        /\ users' = r.users
        /\ userCounter' = r.counter
        /\ UNCHANGED <<posts, postCounter, reqs>>

\* (mutant) delete-user cascades: the Posts of the deleted user are removed
DeleteUser_Cascade ==
    \E idParam \in UserPathIds, store \in WriteOutcomes :
        LET r == deleteUser(idParam, users, store) IN
        /\ users' = r.users
        /\ posts' = IF r.users = users THEN posts
                    ELSE {d \in posts : CheckedPresent(d.user_id, r.users)}
        /\ UNCHANGED <<userCounter, postCounter, reqs>>

DeleteUser ==
    \E idParam \in UserPathIds, store \in WriteOutcomes :
        LET r == deleteUser(idParam, users, store) IN
        /\ users' = r.users
        /\ UNCHANGED <<posts, userCounter, postCounter, reqs>>

CheckUserExists ==
    \E idParam \in UserPathIds, store \in StoreOutcomes :
        LET r == userCheckUserExists(idParam, users, store) IN
        /\ r.status \in {200, 400, 500}
        /\ UNCHANGED <<users, posts, userCounter, postCounter, reqs>>

\* ----------------------------------------------------- Post Service actions
\* (mutant) delete-post gated by verification: the Post is removed only while
\* the users collection holds its owning user
DeletePost_Gated ==
    \E postID \in PostPathIds, store \in WriteOutcomes :
        LET r == deletePost(postID, posts, store) IN
        /\ posts' = {d \in posts : d \in r.posts \/ ~CheckedPresent(d.user_id, users)}
        /\ UNCHANGED <<users, userCounter, postCounter, reqs>>

\* deletePost as one step: the handler makes no call but DeleteOne
DeletePost ==
    \E postID \in PostPathIds, store \in WriteOutcomes :
        LET r == deletePost(postID, posts, store) IN
        /\ posts' = r.posts
        /\ UNCHANGED <<users, userCounter, postCounter, reqs>>

\* (mutant) the bind error is not returned: the existence check is issued for
\* the zero Post
CreatePostReceive_CheckFirst(s) ==
    /\ reqs[s].pc \in {"idle", "done"}
    /\ \/ reqs' = [reqs EXCEPT ![s] =
                  [IdleReq EXCEPT !.kind = "create", !.pc = "verifying",
                                  !.bodyOk = FALSE, !.verifyCalls = 1]]
       \/ \E newPost \in Bodies :
            /\ newPost.id = NilObjectID =>
                   postCounter + PendingGenerated < FirstCounter + MaxPosts
            /\ reqs' = [reqs EXCEPT ![s] =
                   [IdleReq EXCEPT !.kind = "create", !.pc = "verifying",
                                   !.userID = newPost.user_id, !.bodyId = newPost.id,
                                   !.title = newPost.title, !.content = newPost.content,
                                   !.verifyCalls = 1]]
    /\ UNCHANGED <<users, posts, userCounter, postCounter>>

\* createPost, lines 93-103: bind the body; a body that does not bind ends the
\* request with 400, otherwise the existence check is issued
CreatePostReceive(s) ==
    /\ reqs[s].pc \in {"idle", "done"}
    /\ \/ reqs' = [reqs EXCEPT ![s] =
                  [IdleReq EXCEPT !.kind = "create", !.pc = "done", !.status = 400,
                                  !.bodyOk = FALSE]]
       \/ \E newPost \in Bodies :
            /\ newPost.id = NilObjectID =>
                   postCounter + PendingGenerated < FirstCounter + MaxPosts
            /\ reqs' = [reqs EXCEPT ![s] =
                   [IdleReq EXCEPT !.kind = "create", !.pc = "verifying",
                                   !.userID = newPost.user_id, !.bodyId = newPost.id,
                                   !.title = newPost.title, !.content = newPost.content,
                                   !.verifyCalls = 1]]
    /\ UNCHANGED <<users, posts, userCounter, postCounter>>

\* getPostsByUserID, lines 58-64: read the path parameter, issue the check
ListReceive(s) ==
    /\ reqs[s].pc \in {"idle", "done"}
    /\ \E userID \in ListUserIds :
        reqs' = [reqs EXCEPT ![s] =
                    [IdleReq EXCEPT !.kind = "list", !.pc = "verifying",
                                    !.userID = userID, !.verifyCalls = 1]]
    /\ UNCHANGED <<users, posts, userCounter, postCounter>>

\* the existence check of a request: the transport's outcome, the User
\* Service's handler on the users collection as it is now, the client's
\* decoding, and the handler's branch on (exists, err).  http.Get carries no
\* deadline: a call that is never answered never returns.
Verify(s) ==
    /\ reqs[s].pc = "verifying"
    /\ \E net \in NetOutcomes, store \in StoreOutcomes :
        LET r == reqs[s]
            resp == ExistsEndpoint(r.userID, users, store)
            v == checkUserExists(r.userID, net, users, store)
            gate == IF r.kind = "create" THEN createPostGate(v) ELSE getPostsGate(v)
            seen == [r EXCEPT !.net = net,
                              !.ustatus = IF net = "ok" THEN resp.status ELSE 0,
                              !.count = IF net = "ok" THEN resp.count ELSE -1,
                              !.userAtCheck = UserPresent(r.userID, users),
                              !.refAtCheck = CheckedPresent(r.userID, users)]
        IN  IF net = "hang"
              THEN reqs' = [reqs EXCEPT ![s] = [seen EXCEPT !.pc = "hung"]]
              ELSE reqs' = [reqs EXCEPT ![s] =
                      [seen EXCEPT !.exists = v.exists, !.err = v.err,
                                   !.pc = IF gate = 0 THEN "verified" ELSE "done",
                                   !.status = gate]]
    /\ UNCHANGED <<users, posts, userCounter, postCounter>>

\* the store operation of a verified request and its answer
StoreStep(s) ==
    /\ reqs[s].pc = "verified"
    /\ LET r == reqs[s] IN
       IF r.kind = "create"
         THEN \E store \in WriteOutcomes :
                LET newPost == [id |-> r.bodyId, user_id |-> r.userID,
                                title |-> r.title, content |-> r.content]
                    a == createPostStore(newPost, posts, postCounter, store)
                    here == CheckedPresent(r.userID, users)
                IN  /\ posts' = a.posts
                    /\ postCounter' = a.counter
                    /\ reqs' = [reqs EXCEPT ![s] =
                           [r EXCEPT !.pc = "done", !.status = a.status, !.out = a.out,
                                     !.storeOps = 1, !.refAtStore = here]]
         ELSE \E store \in StoreOutcomes \cup {"decode"} :
                LET a == getPostsStore(r.userID, posts, store) IN
                /\ reqs' = [reqs EXCEPT ![s] =
                       [r EXCEPT !.pc = "done", !.status = a.status, !.out = a.out,
                                 !.echo = a.user_id, !.storeOps = 1,
                                 !.refAtStore = CheckedPresent(r.userID, users)]]
                /\ UNCHANGED <<posts, postCounter>>
    /\ UNCHANGED <<users, userCounter>>

Next ==
    \/ GetAllUsers
    \/ CreateUser
    \/ DeleteUser
    \/ CheckUserExists
    \/ DeletePost
    \/ \E s \in Slots : CreatePostReceive(s)
    \/ \E s \in Slots : ListReceive(s)
    \/ \E s \in Slots : Verify(s)
    \/ \E s \in Slots : StoreStep(s)

Spec == Init /\ [][Next]_vars

\* ------------------------------------------------------------------ claims
\* this step is the end of the existence check of the request in slot s
CheckReturned(s) == reqs[s].pc = "verifying" /\ reqs'[s].pc \in {"verified", "done"}

\* C1: a create-post whose verification client reports an error (transport
\* failure or decode failure) is answered 502 by the step that receives the
\* error, that step leaves the posts collection as it was, and the request
\* performs no store operation.
C1_VerifyErrorIs502 ==
    [][\A s \in Slots :
          (CheckReturned(s) /\ reqs'[s].kind = "create" /\ reqs'[s].err)
          => /\ reqs'[s].pc = "done"
             /\ reqs'[s].status = 502
             /\ reqs'[s].storeOps = 0
             /\ reqs'[s].out = {}
             /\ posts' = posts]_vars

\* the user exists and the User Service cannot be reached: 502, nothing stored
C1_Witness ==
    \E s \in Slots :
        /\ reqs[s].kind = "create" /\ reqs[s].pc = "done"
        /\ reqs[s].err /\ reqs[s].net = "fail"
        /\ reqs[s].userAtCheck
        /\ reqs[s].status = 502
        /\ posts = {}

\* C2: a create-post whose verification reports exists:false (and no error) is
\* answered 404 by the step that receives the answer, that step leaves the
\* posts collection as it was, and the request performs no store operation.
C2_NotFoundIs404 ==
    [][\A s \in Slots :
          (CheckReturned(s) /\ reqs'[s].kind = "create"
              /\ ~reqs'[s].err /\ ~reqs'[s].exists)
          => /\ reqs'[s].pc = "done"
             /\ reqs'[s].status = 404
             /\ reqs'[s].storeOps = 0
             /\ reqs'[s].out = {}
             /\ posts' = posts]_vars

\* the User Service counted zero users for a well-formed identifier
C2_Witness ==
    \E s \in Slots :
        /\ reqs[s].kind = "create" /\ reqs[s].pc = "done"
        /\ ~reqs[s].err /\ ~reqs[s].exists
        /\ reqs[s].ustatus = 200 /\ reqs[s].count = 0
        /\ reqs[s].status = 404

\* C3: whenever a create-post or list-by-user request is answered 404 "user
\* does not exist", the User Service counted the users collection and found
\* zero users (it answered 200 with exists:false); a 500 or any other failure
\* to produce an {id, exists} answer is never turned into 404.
C3_NotFoundMeansCountedZero ==
    \A s \in Slots :
        (reqs[s].pc = "done" /\ reqs[s].status = 404)
        => (reqs[s].net = "ok" /\ reqs[s].ustatus = 200 /\ reqs[s].count = 0)

\* C4: a list-by-user whose existence check reaches the User Service at a
\* moment the users collection holds no user with the path identifier is
\* answered 404, whatever the posts collection holds.
C4_ListOfAbsentUserIs404 ==
    \A s \in Slots :
        (reqs[s].kind = "list" /\ reqs[s].pc = "done"
            /\ reqs[s].net = "ok" /\ ~reqs[s].userAtCheck)
        => reqs[s].status = 404

\* C5 (as stated): the user a created Post refers to is present in the users
\* collection at the moment the Post is inserted.
C5_UserPresentAtInsert ==
    \A s \in Slots :
        (reqs[s].kind = "create" /\ reqs[s].pc = "done" /\ reqs[s].status = 201)
        => reqs[s].refAtStore

\* C5 (amended): the user the Post of a create-post refers to was present in
\* the users collection at the moment of the existence check of the same
\* request, for every request that reaches its insert.
C5_UserPresentAtCheck ==
    \A s \in Slots :
        (reqs[s].kind = "create" /\ reqs[s].storeOps = 1)
        => reqs[s].refAtCheck

\* a Post was inserted for a user that was deleted between the check and the
\* insert
C5_Witness ==
    \E s \in Slots :
        /\ reqs[s].kind = "create" /\ reqs[s].pc = "done" /\ reqs[s].status = 201
        /\ reqs[s].refAtCheck /\ ~reqs[s].refAtStore
        /\ posts # {} /\ users = {}

\* C6: no request stays in the check forever: a request whose existence check
\* has been issued and that has not been answered can always take a next step
\* of its handler (the check returning, by an answer, a failure or its
\* deadline, or the store operation), so under the runtime's scheduling it
\* reaches its answer.
C6_NoRequestWaitsForever ==
    \A s \in Slots :
        (reqs[s].kind # "none" /\ reqs[s].pc # "done")
        => ENABLED (Verify(s) \/ StoreStep(s))

\* identifiers the User Service has assigned so far
AssignedOids == {NewObjectID(UserProc, c) : c \in FirstCounter..(userCounter - 1)}

\* C7: every stored Post has a well-formed owning-user identifier that the
\* User Service assigned to a User, and every create-post answered 201 had
\* its check answered exists:true while that User was in the collection.
C7_PostsNameRealUsers ==
    /\ \A p \in posts :
          /\ p.user_id # <<>>
          /\ ~ObjectIDFromHex(p.user_id).err
          /\ ObjectIDFromHex(p.user_id).oid \in AssignedOids
    /\ \A s \in Slots :
          (reqs[s].kind = "create" /\ reqs[s].pc = "done" /\ reqs[s].status = 201)
          => (reqs[s].exists /\ ~reqs[s].err /\ reqs[s].userAtCheck)

\* identifiers of the input pools that are no 24-digit hex strings
MalformedIds == {NonHexId, ShortId}

\* path parameters of the input pools that parse as identifiers
WellFormedUserIds == UserPathIds \ MalformedIds
WellFormedPostIds == PostPathIds \ MalformedIds

\* C8 (as stated): in every reachable state GET /users/exists/I for a
\* well-formed I answers 200, echoes I and reports exists = (the collection
\* holds a user with identifier I), whatever the store's count does.
C8_ExistsAnswers200 ==
    \A idParam \in WellFormedUserIds, store \in StoreOutcomes :
        LET r == userCheckUserExists(idParam, users, store) IN
        /\ r.status = 200
        /\ r.body = JsonBody([id |-> idParam, exists |-> UserPresent(idParam, users)])

\* C8 (amended): the same when the count succeeds; a count that returns an
\* error is answered 500 with an error body; the handler performs one store
\* operation, a read.
C8_ExistsAnswers200UnlessStoreError ==
    \A idParam \in WellFormedUserIds, store \in StoreOutcomes :
        LET r == userCheckUserExists(idParam, users, store) IN
        /\ store = "ok" =>
              /\ r.status = 200
              /\ r.body = JsonBody([id |-> idParam,
                                    exists |-> UserPresent(idParam, users)])
        /\ store = "err" => (r.status = 500 /\ r.body = ErrorBody("store"))
        /\ r.storeOps = 1

\* a user was created and deleted: the check of its well-formed identifier
\* answers 200 with exists:false, while the check of a stored user's
\* identifier answers exists:true
C8_Witness ==
    /\ userCounter = FirstCounter + MaxUsers
    /\ ~UserPresent(Hex(FirstUser), users)
    /\ users # {}
    /\ userCheckUserExists(Hex(FirstUser), users, "ok").body
          = JsonBody([id |-> Hex(FirstUser), exists |-> FALSE])
    /\ \E u \in users :
          userCheckUserExists(Hex(u.id), users, "ok").body
              = JsonBody([id |-> Hex(u.id), exists |-> TRUE])

\* C9: in every reachable state the existence check, delete-user and
\* delete-post answer 400 for an identifier that fails parsing, perform no
\* store operation and leave their collection unchanged, whatever the store
\* would do.
C9_MalformedIs400 ==
    \A id \in MalformedIds, store \in WriteOutcomes :
        /\ userCheckUserExists(id, users, store).status = 400
        /\ userCheckUserExists(id, users, store).storeOps = 0
        /\ deleteUser(id, users, store).status = 400
        /\ deleteUser(id, users, store).storeOps = 0
        /\ deleteUser(id, users, store).users = users
        /\ deletePost(id, posts, store).status = 400
        /\ deletePost(id, posts, store).storeOps = 0
        /\ deletePost(id, posts, store).posts = posts

\* both collections hold documents and a delete of a malformed identifier is
\* answered 400
C9_Witness ==
    /\ posts # {}
    /\ users # {}
    /\ deletePost(NonHexId, posts, "ok").status = 400
    /\ deleteUser(ShortId, users, "ok").status = 400

\* C10: a request whose identifier the User Service rejects with 400 (it fails
\* parsing) ends with 400 at the Post Service.
C10_MalformedIs400AtPostService ==
    \A s \in Slots :
        (reqs[s].pc = "done" /\ reqs[s].net = "ok" /\ reqs[s].ustatus = 400)
        => reqs[s].status = 400

\* the string is a well-formed identifier and the posts collection holds no Post
\* with it
PostAbsent(postID, ps) ==
    /\ ~ObjectIDFromHex(postID).err
    /\ ~\E d \in ps : d.id = ObjectIDFromHex(postID).oid

\* C11 (as stated): in every reachable state DELETE /posts/:postID for an
\* identifier no Post in the store carries answers 404, never 500, and leaves
\* the posts collection unchanged.
C11_AbsentPostIs404 ==
    \A postID \in PostPathIds, store \in WriteOutcomes :
        PostAbsent(postID, posts)
        => /\ deletePost(postID, posts, store).status = 404
           /\ deletePost(postID, posts, store).posts = posts

\* C11 (amended): DELETE /posts/:postID for an identifier no Post in the store
\* carries answers 404 when the store's delete returns its result and 500
\* when it returns an error, never 200 or 400; either way the posts collection
\* is unchanged, so the next delete of the same identifier meets the same
\* state.
C11_AbsentPostIs404UnlessStoreError ==
    \A postID \in PostPathIds, store \in WriteOutcomes :
        LET r == deletePost(postID, posts, store) IN
        PostAbsent(postID, posts)
        => /\ store = "ok" => (r.status = 404 /\ r.body = ErrorBody("post not found"))
           /\ store # "ok" => (r.status = 500 /\ r.body = ErrorBody("store"))
           /\ r.storeOps = 1
           /\ r.posts = posts
           /\ PostAbsent(postID, r.posts)

\* a Post was created with 201 and deleted: a further delete of its identifier
\* is answered 404
C11_Witness ==
    /\ \E s \in Slots :
          /\ reqs[s].kind = "create" /\ reqs[s].pc = "done" /\ reqs[s].status = 201
          /\ \E d \in reqs[s].out : d.id = FirstPost
    /\ PostAbsent(Hex(FirstPost), posts)
    /\ deletePost(Hex(FirstPost), posts, "ok").status = 404

\* C12 (as stated): a create-user answered 201 returns an identifier no User in
\* the store carried and stores the User under it; an existence check for the
\* identifier of a stored User answers exists:true; a stored User leaves the
\* store only by a delete-user for its identifier that answers 200.
C12_CreatedUserExists ==
    /\ [](/\ \A name \in Names, store \in WriteOutcomes :
                LET r == createUser(TRUE, name, users, userCounter, store) IN
                r.status = 201
                => /\ ~UserPresent(r.body.obj.id, users)
                   /\ UserPresent(r.body.obj.id, r.users)
          /\ \A idParam \in UserPathIds, store \in StoreOutcomes :
                LET r == userCheckUserExists(idParam, users, store) IN
                UserPresent(idParam, users)
                => /\ r.status = 200
                   /\ r.body = JsonBody([id |-> idParam, exists |-> TRUE])
          /\ \A idParam \in UserPathIds, store \in WriteOutcomes :
                LET r == deleteUser(idParam, users, store) IN
                r.users # users => r.status = 200)
    /\ [][\A u \in users : u \notin users' => DeleteUser]_vars

\* C12 (amended): a create-user answered 201 returns an identifier no User in
\* the store carried and stores the User, and nothing else, under it; an
\* existence check for the identifier of a stored User answers 200
\* exists:true when the count succeeds and 500 when it fails, never
\* exists:false; a stored User leaves the store only by a delete-user for its
\* identifier that the store applied, answered 200, or 500 when the result
\* did not reach the handler.
C12_CreatedUserExistsUntilDeleteApplied ==
    /\ [](/\ \A name \in Names, store \in WriteOutcomes :
                LET r == createUser(TRUE, name, users, userCounter, store) IN
                r.status = 201
                => /\ ~UserPresent(r.body.obj.id, users)
                   /\ UserPresent(r.body.obj.id, r.users)
                   /\ r.users = users \cup
                          {[id |-> ObjectIDFromHex(r.body.obj.id).oid, name |-> name]}
                   /\ Cardinality(r.users) = Cardinality(users) + 1
          /\ \A idParam \in UserPathIds, store \in StoreOutcomes :
                LET r == userCheckUserExists(idParam, users, store) IN
                UserPresent(idParam, users)
                => /\ store = "ok" =>
                         /\ r.status = 200
                         /\ r.body = JsonBody([id |-> idParam, exists |-> TRUE])
                   /\ store = "err" => (r.status = 500 /\ r.body = ErrorBody("store"))
          /\ \A idParam \in UserPathIds, store \in WriteOutcomes :
                LET r == deleteUser(idParam, users, store) IN
                r.users # users
                => /\ r.status \in {200, 500}
                   /\ r.status = 500 <=> store = "late"
                   /\ r.users = {u \in users : u.id # ObjectIDFromHex(idParam).oid})
    /\ [][\A u \in users : u \notin users' => DeleteUser]_vars

\* a second User was created beside a stored one, under another identifier,
\* and the existence check of both answers exists:true
C12_Witness ==
    /\ Cardinality(users) = MaxUsers
    /\ Cardinality({u.id : u \in users}) = MaxUsers
    /\ \A u \in users :
          userCheckUserExists(Hex(u.id), users, "ok").body
              = JsonBody([id |-> Hex(u.id), exists |-> TRUE])

\* the Post in the collection the identifier string names, if any
PostsNamed(postID, ps) == {d \in ps : d.id = ObjectIDFromHex(postID).oid}

\* C13: delete-post is not gated by verification.  Its answer and its effect
\* are fixed by the path parameter, the posts collection and the outcome of
\* its one store call: 400 for a malformed identifier, 200 with the Post
\* removed when the store holds it, 404 when it does not, 500 when the store
\* returns an error.  In every reachable state, whether its owning user is in
\* the users collection or not, every stored Post can be removed by a
\* delete-post step, and no delete-post step issues an existence check or
\* changes anything of the User Service.
C13_DeletePostNotGated ==
    /\ [](/\ \A postID \in PostPathIds, store \in WriteOutcomes :
                LET r == deletePost(postID, posts, store) IN
                /\ r.status \in {200, 400, 404, 500}
                /\ r.status = 400 <=> postID \in MalformedIds
                /\ r.status = 200 <=>
                       (store = "ok" /\ postID \notin MalformedIds
                           /\ PostsNamed(postID, posts) # {})
                /\ r.status = 404 <=>
                       (store = "ok" /\ postID \notin MalformedIds
                           /\ PostsNamed(postID, posts) = {})
                /\ r.status = 200 => r.posts = posts \ PostsNamed(postID, posts)
                /\ r.status \in {400, 404} => r.posts = posts
          /\ \A d \in posts :
                ENABLED (DeletePost /\ posts' = posts \ {d}))
    /\ [][DeletePost => UNCHANGED <<users, userCounter, reqs>>]_vars

\* two Posts are stored, the owning user of one is in the users collection,
\* the owning user of the other is not, and delete-post answers 200 for both
C13_Witness ==
    /\ \E d \in posts : CheckedPresent(d.user_id, users)
    /\ \E d \in posts : ~CheckedPresent(d.user_id, users)
    /\ \A d \in posts : deletePost(Hex(d.id), posts, "ok").status = 200

\* C14: no User Service operation (list, create, delete, exists) changes the
\* posts collection, the Post Service's identifier counter or a request of
\* the Post Service; a stored Post leaves the collection or changes only by a
\* delete-post step, so the Posts of a deleted user stay as they are.
C14_UserServiceLeavesPosts ==
    [][/\ (GetAllUsers \/ CreateUser \/ DeleteUser \/ CheckUserExists)
          => UNCHANGED <<posts, postCounter, reqs>>
       /\ (\E d \in posts : d \notin posts') => DeletePost]_vars

\* users were created and every one deleted; the Posts created for them are
\* still stored, their owning-user identifiers matching no User
C14_Witness ==
    /\ users = {}
    /\ userCounter > FirstCounter
    /\ Cardinality(posts) = MaxPosts
    /\ \A d \in posts :
          /\ ~ObjectIDFromHex(d.user_id).err
          /\ ObjectIDFromHex(d.user_id).oid \in AssignedOids
          /\ ~UserPresent(d.user_id, users)

\* the steps a request's handler can take, as pairs of positions
RequestSteps ==
    {<<"idle", "verifying">>, <<"idle", "done">>,
     <<"done", "verifying">>, <<"done", "done">>,
     <<"verifying", "verified">>, <<"verifying", "done">>,
     <<"verified", "done">>}

\* C15: every create-post and list-by-user request goes received -> verifying
\* -> {verify_failed | not_found | verified} -> store_op -> {done | error}:
\* its positions follow that order; the store operation comes after a check
\* that answered exists:true without error; there is at most one check and at
\* most one store operation; an unanswered request is at the check or at the
\* store operation, on its way to its answer; an answered request has exactly
\* one status: 201 or 200 or 500 after its store operation, 502 after a check
\* error, 404 after exists:false, 400 for a body that does not bind.
C15_RequestStateMachine ==
    /\ [](\A s \in Slots :
            LET r == reqs[s] IN
            /\ r.verifyCalls \in {0, 1}
            /\ r.storeOps \in {0, 1}
            /\ r.storeOps = 1 => (r.verifyCalls = 1 /\ r.exists /\ ~r.err)
            /\ r.pc = "verified" => (r.exists /\ ~r.err /\ r.storeOps = 0)
            /\ (r.kind # "none" /\ r.pc # "done") =>
                  (r.pc \in {"verifying", "verified"} /\ r.status = 0)
            /\ (r.kind # "none" /\ r.pc = "done") =>
                  /\ r.status \in {200, 201, 400, 404, 500, 502}
                  /\ r.status \in {200, 201, 500} <=> r.storeOps = 1
                  /\ r.status = 502 <=> r.err
                  /\ r.status = 404 <=> (r.verifyCalls = 1 /\ ~r.err /\ ~r.exists)
                  /\ r.status = 400 <=> r.verifyCalls = 0
                  /\ r.status = 201 => r.kind = "create"
                  /\ r.status \in {200} => r.kind = "list"
                  /\ r.status = 400 => r.kind = "create")
    /\ [][/\ \A s \in Slots :
                reqs'[s] # reqs[s] => <<reqs[s].pc, reqs'[s].pc>> \in RequestSteps
          /\ (posts' # posts /\ reqs' # reqs) =>
                \E s \in Slots : reqs[s].pc = "verified" /\ reqs'[s].pc = "done"]_vars

\* C16: there are no partial-success states.  In every reachable state and
\* for every input and store outcome, create-user changes the users
\* collection exactly when it answers 201, delete-user exactly when it
\* answers 200, delete-post changes the posts collection exactly when it
\* answers 200; a step of a create-post request changes the posts collection
\* exactly when it ends the request with 201.
C16_NoPartialSuccess ==
    /\ [](/\ \A bodyOk \in BOOLEAN, name \in Names, store \in WriteOutcomes :
                LET r == createUser(bodyOk, name, users, userCounter, store) IN
                (r.users # users) <=> (r.status = 201)
          /\ \A idParam \in UserPathIds, store \in WriteOutcomes :
                LET r == deleteUser(idParam, users, store) IN
                (r.users # users) <=> (r.status = 200)
          /\ \A postID \in PostPathIds, store \in WriteOutcomes :
                LET r == deletePost(postID, posts, store) IN
                (r.posts # posts) <=> (r.status = 200))
    /\ [][\A s \in Slots :
            (reqs'[s] # reqs[s] /\ reqs'[s].kind = "create")
            => ((posts' # posts) <=> (reqs'[s].pc = "done" /\ reqs'[s].status = 201))]_vars

\* C17: the step that ends a create-post with 201 adds exactly one Post to
\* the posts collection: its owning-user identifier, title and content are
\* the request's, its identifier is the one of the response (the body's own
\* when it carried one, the driver's otherwise) and no stored Post had it;
\* every Post stored before is still stored, unchanged.
C17_CreateAddsOnePost ==
    [][\A s \in Slots :
          (reqs[s].pc = "verified" /\ reqs'[s].pc = "done"
              /\ reqs'[s].kind = "create" /\ reqs'[s].status = 201)
          => \E d \in reqs'[s].out :
                /\ reqs'[s].out = {d}
                /\ d.user_id = reqs[s].userID
                /\ d.title = reqs[s].title
                /\ d.content = reqs[s].content
                /\ d.id # NilObjectID
                /\ reqs[s].bodyId # NilObjectID => d.id = reqs[s].bodyId
                /\ \A e \in posts : e.id # d.id
                /\ posts' = posts \cup {d}
                /\ Cardinality(posts') = Cardinality(posts) + 1]_vars

\* a create-post whose body carried an identifier of its own was answered 201
\* with that identifier while another Post was stored, and both are stored
C17_Witness ==
    \E s \in Slots :
        /\ reqs[s].kind = "create" /\ reqs[s].pc = "done" /\ reqs[s].status = 201
        /\ reqs[s].bodyId # NilObjectID
        /\ reqs[s].out \subseteq posts
        /\ \E d \in reqs[s].out : d.id = reqs[s].bodyId
        /\ Cardinality(posts) = MaxPosts

\* C18: a list-by-user whose check answered exists:true answers, when its
\* read of the store succeeds, 200 with the path identifier echoed and
\* exactly the Posts of the posts collection whose owning-user identifier is
\* the path parameter, the empty set when there is none; the step of its
\* store read answers 200 with that set or 500, and leaves the posts
\* collection unchanged.
C18_ListAnswersUsersPosts ==
    /\ [](\A s \in Slots :
            (reqs[s].kind = "list" /\ reqs[s].pc = "verified")
            => /\ reqs[s].exists /\ ~reqs[s].err
               /\ getPostsStore(reqs[s].userID, posts, "ok")
                    = [status |-> 200, user_id |-> reqs[s].userID,
                       out |-> {d \in posts : d.user_id = reqs[s].userID}])
    /\ [][\A s \in Slots :
            (reqs[s].pc = "verified" /\ reqs'[s].pc = "done" /\ reqs'[s].kind = "list")
            => /\ posts' = posts
               /\ reqs'[s].status \in {200, 500}
               /\ reqs'[s].status = 200 =>
                     /\ reqs'[s].echo = reqs[s].userID
                     /\ reqs'[s].out = {d \in posts : d.user_id = reqs[s].userID}
               /\ reqs'[s].status = 500 => reqs'[s].out = {}]_vars

\* a list-by-user was answered 200 with the one Post of its user while the
\* Post of another owning-user identifier is stored and left out
C18_Witness ==
    \E s \in Slots :
        /\ reqs[s].kind = "list" /\ reqs[s].pc = "done" /\ reqs[s].status = 200
        /\ reqs[s].echo = reqs[s].userID
        /\ reqs[s].out # {}
        /\ reqs[s].out \subseteq posts
        /\ \E d \in posts : d.user_id # reqs[s].userID

\* C19: a create-post whose body does not bind to a Post is answered 400 by
\* the step that receives it: no existence check is issued, no store
\* operation is performed, and the step changes neither collection.
C19_UnboundBodyIs400 ==
    /\ [](\A s \in Slots :
            (reqs[s].kind = "create" /\ ~reqs[s].bodyOk)
            => /\ reqs[s].pc = "done"
               /\ reqs[s].status = 400
               /\ reqs[s].verifyCalls = 0
               /\ reqs[s].storeOps = 0
               /\ reqs[s].net = "none")
    /\ [][\A s \in Slots :
            (~reqs'[s].bodyOk /\ reqs'[s] # reqs[s])
            => UNCHANGED <<users, posts, userCounter, postCounter>>]_vars

\* a create-post with a body that does not bind was answered 400 while a user
\* and a Post are stored
C19_Witness ==
    /\ users # {}
    /\ posts # {}
    /\ \E s \in Slots :
          /\ reqs[s].kind = "create" /\ ~reqs[s].bodyOk
          /\ reqs[s].pc = "done" /\ reqs[s].status = 400

====
